---- MODULE Spec2Model ----
(***************************************************************************)
(* Model of the reference-platform PLUMED kernel of the OpenMM PLUMED      *)
(* plugin (ReferenceCalcPlumedForceKernel) and of the PlumedForce          *)
(* descriptor it consumes.                                                 *)
(*                                                                         *)
(* The PLUMED interpreter is an external library reached through           *)
(* plumed_create / plumed_cmd / plumed_finalize.  The model records, per   *)
(* kernel instance, the commands handed to plumed_cmd (cmds), one batch    *)
(* per initialize or execute call, and counts the create / finalize calls. *)
(* The MPI runtime is process wide: one flag and one counter of MPI_Init   *)
(* calls shared by all kernels.                                            *)
(***************************************************************************)
EXTENDS Integers, Sequences, FiniteSets, TLC

\* ------------------------------------------------------------------ bounds

\* Largest particle count of the simulated System.
MaxParticles == 2
\* Largest step index the host hands to execute (steps are 0..MaxStep).
MaxStep == 1
\* Total number of execute calls explored, over all kernels.
MaxExec == 3

\* The kernel instances of the process: one per Context built from the
\* System.  Two are enough for their initialize calls to overlap.
Kernels == {"k1", "k2"}
Steps == 0..MaxStep

\* ------------------------------------------------- constants of the code

\* Oldest PLUMED API version initialize accepts.
MinApiVersion == 4
\* Newest PLUMED API version without a working "readInputLines".
LastLineByLineApiVersion == 7
\* Value the constructor gives lastStepIndex.
InitialLastStepIndex == 0
\* "setRealPrecision" payload: sizeof(double).
RealPrecision == 8
\* "setMD*Units" payload (1.0).
UnitConversion == 1

\* API versions the interpreter may report: both sides of each threshold.
ApiVersions ==
    {MinApiVersion - 1, MinApiVersion,
     LastLineByLineApiVersion, LastLineByLineApiVersion + 1}

\* ------------------------------------------------------- host-side inputs

Delims == {"\r", "\n"}

\* A NonbondedForce holding one charge per particle (distinct per force).
NonbondedForce(n, base, periodic) ==
    [kind |-> "Nonbonded", charges |-> [i \in 1..n |-> base + i],
     periodic |-> periodic]

\* PlumedForce::usesPeriodicBoundaryConditions() returns false.
PlumedForceEntry ==
    [kind |-> "Plumed", charges |-> << >>, periodic |-> FALSE]

\* The force lists of the simulated System: without a NonbondedForce, and
\* with two of them around the PlumedForce (which is always in the list).
ForceLists(n) ==
    { << PlumedForceEntry >>,
      << NonbondedForce(n, 10, TRUE), PlumedForceEntry,
         NonbondedForce(n, 20, FALSE) >> }

\* System::getParticleMass(i) for a System of n particles.
SystemMasses(n) == [i \in 1..n |-> i]

Systems ==
    { [numParticles |-> n, masses |-> SystemMasses(n), forces |-> f] :
        n \in 1..MaxParticles, f \in UNION { ForceLists(m) : m \in 1..MaxParticles } }

\* Mass overrides PlumedForce::setMasses may have stored: none, or any
\* length up to one more than the largest particle count.
MassOverrides == { [i \in 1..m |-> 50 + i] : m \in 0..(MaxParticles + 1) }

\* Two ways the application sets the descriptor up besides its masses: the
\* defaults (temperature -1 means "undefined") with an empty script on the
\* group leader, and everything set with a two-line script on another rank.
Descriptors ==
    { [script |-> << >>, temperature |-> -1, rank |-> 0, restart |-> FALSE],
      [script |-> << "d", "\r", "\n", "m", "\n", "\n" >>,
       temperature |-> 300, rank |-> 1, restart |-> TRUE] }

PlumedForces ==
    { [script |-> d.script, masses |-> m, temperature |-> d.temperature,
       rank |-> d.rank, restart |-> d.restart] :
        d \in Descriptors, m \in MassOverrides }

VARIABLES
    system,          \* the simulated OpenMM::System
    force,           \* the PlumedForce descriptor
    apiVersion,      \* what the interpreter answers to "getApiVersion"
    mpiInitialized,  \* what MPI_Initialized reports
    mpiInitCalls,    \* number of MPI_Init calls made in this process
    pc,              \* per kernel: position in its lifecycle
    done_already,    \* per kernel: local of initialize
    hasInitialized,  \* per kernel: field
    lastStepIndex,   \* per kernel: field
    masses,          \* per kernel: field
    charges,         \* per kernel: field
    usesPeriodic,    \* per kernel: field
    plumedCreated,   \* per kernel: number of plumed_create calls
    plumedFinalized, \* per kernel: number of plumed_finalize calls
    error,           \* per kernel: exception initialize threw, or "none"
    cmds             \* per kernel: commands handed to plumed_cmd, per call

env == << system, force, apiVersion >>
mpi == << mpiInitialized, mpiInitCalls >>
fields == << hasInitialized, lastStepIndex, masses, charges, usesPeriodic >>
vars == << system, force, apiVersion, mpiInitialized, mpiInitCalls, pc,
           done_already, hasInitialized, lastStepIndex, masses, charges,
           usesPeriodic, plumedCreated, plumedFinalized, error, cmds >>

\* A plumed_cmd call: its key and the payload it points to ("-" when the
\* payload is a buffer owned by the host or by the interpreter).
Cmd(name, payload) == << name, payload >>
Name(c) == c[1]
Payload(c) == c[2]

\* ------------------------------------------------------- pure helpers

RECURSIVE SkipDelims(_)
SkipDelims(s) ==
    IF s # << >> /\ Head(s) \in Delims THEN SkipDelims(Tail(s)) ELSE s

RECURSIVE TakeToken(_)
TakeToken(s) ==
    IF s = << >> \/ Head(s) \in Delims THEN << >>
    ELSE << Head(s) >> \o TakeToken(Tail(s))

\* The lines strtok(script, "\r\n") yields, in order.
RECURSIVE Strtok(_)
Strtok(s) ==
    LET t == SkipDelims(s)
        tok == TakeToken(t)
    IN  IF t = << >> THEN << >>
        ELSE << tok >> \o Strtok(SubSeq(t, Len(tok) + 1, Len(t)))

ApiVersionRejectsFour(v) == ~(v <= MinApiVersion)

\* initialize: "if (apiVersion < 4) throw".
ApiVersionSupported(v) == ~(v < MinApiVersion)

\* initialize: "if (apiVersion > 7)" selects the multi-line submission.
UseMultiLine(v) == v > LastLineByLineApiVersion

\* initialize: script ingestion.
ScriptCmds(v, script) ==
    IF UseMultiLine(v) THEN << Cmd("readInputLines", script) >>
    ELSE LET lines == Strtok(script)
         IN  [i \in 1..Len(lines) |-> Cmd("readInputLine", lines[i])]

\* initialize: commands issued up to and including "getApiVersion".
CommCmds(rank) ==
    (IF rank = 0 THEN << Cmd("GREX setMPIIntercomm", "-") >> ELSE << >>)
    \o << Cmd("GREX setMPIIntracomm", "-"), Cmd("GREX init", "-"),
          Cmd("setMPIComm", "-"), Cmd("getApiVersion", "-") >>

\* initialize: commands issued after the version check, through "init".
SetupCmds(sys, f) ==
    << Cmd("setRealPrecision", RealPrecision),
       Cmd("setMDEnergyUnits", UnitConversion),
       Cmd("setMDLengthUnits", UnitConversion),
       Cmd("setMDTimeUnits", UnitConversion),
       Cmd("setMDEngine", "OpenMM"),
       Cmd("setLog", "-"),
       Cmd("setNatoms", sys.numParticles),
       Cmd("setTimestep", "-") >>
    \o (IF f.temperature >= 0 THEN << Cmd("setKbT", "-") >> ELSE << >>)
    \o << Cmd("setRestart", f.restart), Cmd("init", "-") >>

\* System::usesPeriodicBoundaryConditions(): some force is periodic.
UsesPeriodicBoundaryConditions(sys) ==
    \E j \in 1..Len(sys.forces) : sys.forces[j].periodic

\* initialize: does the mass resolution reach the final "else throw"?
MassCountMismatch(sys, f) ==
    Len(f.masses) # 0 /\ Len(f.masses) # sys.numParticles

ResolveMassesMixed(sys, f) ==
    IF Len(f.masses) = 0
    THEN [i \in 1..sys.numParticles |-> sys.masses[i]]
    ELSE IF Len(f.masses) = sys.numParticles
    THEN [i \in 1..sys.numParticles |->
             IF i = 1 THEN sys.masses[i] ELSE f.masses[i]]
    ELSE [i \in 1..sys.numParticles |-> 0]

\* initialize: "Record the particle masses".  On a mismatch the array keeps
\* what resize() left in it.
ResolveMasses(sys, f) ==
    IF Len(f.masses) = 0
    THEN [i \in 1..sys.numParticles |-> sys.masses[i]]
    ELSE IF Len(f.masses) = sys.numParticles
    THEN f.masses
    ELSE [i \in 1..sys.numParticles |-> 0]

ExtractChargesAlways(sys) == [i \in 1..sys.numParticles |-> 0]

\* initialize: the loop over the System's forces; each NonbondedForce
\* overwrites the cache with its per-particle charges.
RECURSIVE ChargesFrom(_, _, _)
ChargesFrom(sys, j, acc) ==
    IF j > Len(sys.forces) THEN acc
    ELSE ChargesFrom(sys, j + 1,
            IF sys.forces[j].kind = "Nonbonded"
            THEN [i \in 1..sys.numParticles |-> sys.forces[j].charges[i]]
            ELSE acc)

ExtractCharges(sys) == ChargesFrom(sys, 1, << >>)

NeedsUpdateAlways(step, last) == TRUE
NeedsUpdateWhenGreater(step, last) == step > last

\* execute: "if (step != lastStepIndex)".
NeedsUpdate(step, last) == step # last

\* execute: the commands of one call, in order.
ExecuteCmds(step, m, c, periodic, last) ==
    << Cmd("setStep", step), Cmd("setMasses", m) >>
    \o (IF Len(c) > 0 THEN << Cmd("setCharges", c) >> ELSE << >>)
    \o << Cmd("setPositions", "-"), Cmd("setForces", "-") >>
    \o (IF periodic THEN << Cmd("setBox", "-") >> ELSE << >>)
    \o << Cmd("setVirial", "-"), Cmd("prepareCalc", "-"),
          Cmd("performCalcNoUpdate", "-") >>
    \o (IF NeedsUpdate(step, last) THEN << Cmd("update", "-") >> ELSE << >>)
    \o << Cmd("getBias", "-") >>

DestructorFinalizesAlways(h) == TRUE
DestructorFinalizesNever(h) == FALSE

\* ~ReferenceCalcPlumedForceKernel: "if (hasInitialized) plumed_finalize".
DestructorFinalizes(h) == h

\* Is this batch of commands the one of an execute call?
IsExecute(batch) == Name(batch[1]) = "setStep"

\* The execute calls kernel k has made, in order.
ExecCalls(k) == SelectSeq(cmds[k], IsExecute)

NumExec(k) == Len(ExecCalls(k))

RECURSIVE SumExec(_)
SumExec(S) ==
    IF S = {} THEN 0
    ELSE LET k == CHOOSE x \in S : TRUE IN NumExec(k) + SumExec(S \ {k})

\* ------------------------------------------------------------ the model

\* State after every kernel's constructor has run.
Init ==
    /\ system \in Systems
    /\ \A j \in 1..Len(system.forces) :
          Len(system.forces[j].charges) \in {0, system.numParticles}
    /\ force \in PlumedForces
    /\ apiVersion \in ApiVersions
    /\ mpiInitialized \in BOOLEAN
    /\ mpiInitCalls = 0
    /\ pc = [k \in Kernels |-> "constructed"]
    /\ done_already = [k \in Kernels |-> FALSE]
    /\ hasInitialized = [k \in Kernels |-> FALSE]
    /\ lastStepIndex = [k \in Kernels |-> InitialLastStepIndex]
    /\ masses = [k \in Kernels |-> << >>]
    /\ charges = [k \in Kernels |-> << >>]
    /\ usesPeriodic = [k \in Kernels |-> FALSE]
    /\ plumedCreated = [k \in Kernels |-> 0]
    /\ plumedFinalized = [k \in Kernels |-> 0]
    /\ error = [k \in Kernels |-> "none"]
    /\ cmds = [k \in Kernels |-> << >>]

\* initialize, first part: plumed_create() and MPI_Initialized(&done_already).
\* Another kernel's initialize may run between the check and the MPI_Init.
InitializeCheck(k) ==
    /\ pc[k] = "constructed"
    /\ pc' = [pc EXCEPT ![k] = "checked"]
    /\ plumedCreated' = [plumedCreated EXCEPT ![k] = @ + 1]
    /\ done_already' = [done_already EXCEPT ![k] = mpiInitialized]
    /\ UNCHANGED << env, mpi, fields, plumedFinalized, error, cmds >>

\* initialize, from "if (!done_already) MPI_Init" to its return or throw.
InitializeRest(k) ==
    /\ pc[k] = "checked"
    /\ mpiInitCalls' = IF done_already[k] THEN mpiInitCalls ELSE mpiInitCalls + 1
    /\ mpiInitialized' = TRUE
    /\ hasInitialized' = [hasInitialized EXCEPT ![k] = TRUE]
    /\ IF ~ApiVersionSupported(apiVersion)
       THEN /\ cmds' = [cmds EXCEPT ![k] = Append(@, CommCmds(force.rank))]
            /\ error' = [error EXCEPT ![k] = "version"]
            /\ pc' = [pc EXCEPT ![k] = "failed"]
            /\ UNCHANGED << masses, charges, usesPeriodic >>
       ELSE /\ cmds' = [cmds EXCEPT ![k] =
                          Append(@, CommCmds(force.rank)
                                    \o SetupCmds(system, force)
                                    \o ScriptCmds(apiVersion, force.script))]
            /\ usesPeriodic' = [usesPeriodic EXCEPT ![k] =
                                  UsesPeriodicBoundaryConditions(system)]
            /\ masses' = [masses EXCEPT ![k] = ResolveMasses(system, force)]
            /\ IF MassCountMismatch(system, force)
               THEN /\ error' = [error EXCEPT ![k] = "masses"]
                    /\ pc' = [pc EXCEPT ![k] = "failed"]
                    /\ UNCHANGED charges
               ELSE /\ charges' = [charges EXCEPT ![k] = ExtractCharges(system)]
                    /\ pc' = [pc EXCEPT ![k] = "initialized"]
                    /\ UNCHANGED error
    /\ UNCHANGED << env, lastStepIndex, done_already, plumedCreated,
                    plumedFinalized >>

\* execute, with the Context's stepCount equal to step.
Execute(k, step) ==
    /\ pc[k] = "initialized"
    /\ SumExec(Kernels) < MaxExec
    /\ cmds' = [cmds EXCEPT ![k] =
                  Append(@, ExecuteCmds(step, masses[k], charges[k],
                                        usesPeriodic[k], lastStepIndex[k]))]
    /\ lastStepIndex' = [lastStepIndex EXCEPT ![k] =
                           IF NeedsUpdate(step, @) THEN step ELSE @]
    /\ UNCHANGED << env, mpi, pc, done_already, hasInitialized, masses,
                    charges, usesPeriodic, plumedCreated, plumedFinalized,
                    error >>

\* The destructor; the host runs it when the Context goes away, also after
\* initialize threw.
Destroy(k) ==
    /\ pc[k] \in {"constructed", "initialized", "failed"}
    /\ pc' = [pc EXCEPT ![k] = "destroyed"]
    /\ plumedFinalized' = [plumedFinalized EXCEPT ![k] =
                             IF DestructorFinalizes(hasInitialized[k])
                             THEN @ + 1 ELSE @]
    /\ UNCHANGED << env, mpi, done_already, fields, plumedCreated, error, cmds >>

Next ==
    \/ \E k \in Kernels : InitializeCheck(k)
    \/ \E k \in Kernels : InitializeRest(k)
    \/ \E k \in Kernels, step \in Steps : Execute(k, step)
    \/ \E k \in Kernels : Destroy(k)

Spec == Init /\ [][Next]_vars

\* ------------------------------------------- reading the command stream

\* initialize has been called on kernel k and has returned or thrown.
InitializeReturned(k) == plumedCreated[k] > 0 /\ pc[k] # "checked"

\* initialize has been called on kernel k and returned without throwing.
InitializeSucceeded(k) == InitializeReturned(k) /\ error[k] = "none"

\* The commands the initialize call of kernel k issued (none before it).
IsInitialize(batch) == ~IsExecute(batch)
InitCmds(k) ==
    LET b == SelectSeq(cmds[k], IsInitialize)
    IN  IF b = << >> THEN << >> ELSE b[1]

StepOf(seg) == Payload(seg[1])
Count(seg, name) == Cardinality({ i \in 1..Len(seg) : Name(seg[i]) = name })
Updated(seg) == \E i \in 1..Len(seg) : Name(seg[i]) = "update"

\* Number of execute calls of kernel k with step index s that triggered
\* the "update" phase.
UpdatesFor(k, s) ==
    LET calls == ExecCalls(k)
    IN  Cardinality({ i \in 1..Len(calls) :
                        StepOf(calls[i]) = s /\ Updated(calls[i]) })

NonDecreasing(calls) ==
    \A i \in 1..Len(calls) : \A j \in i..Len(calls) :
        StepOf(calls[i]) <= StepOf(calls[j])

StrictlyIncreasing(calls) ==
    \A i \in 1..Len(calls) : \A j \in (i + 1)..Len(calls) :
        StepOf(calls[i]) < StepOf(calls[j])

NonbondedPresent ==
    \E j \in 1..Len(system.forces) : system.forces[j].kind = "Nonbonded"

\* Keys of the commands initialize issues after the version check.
LaterSetupKeys ==
    { "setRealPrecision", "setMDEnergyUnits", "setMDLengthUnits",
      "setMDTimeUnits", "setMDEngine", "setLog", "setNatoms", "setTimestep",
      "setKbT", "setRestart", "init", "readInputLines", "readInputLine" }

ScriptKeys == { "readInputLines", "readInputLine" }

\* Has kernel k issued, in any of its calls, a command with a key in K?
Issued(k, K) ==
    \E b \in 1..Len(cmds[k]) : \E i \in 1..Len(cmds[k][b]) :
        Name(cmds[k][b][i]) \in K

\* The keys that close an execute call, in the order the claim gives them.
CalcKeys == { "prepareCalc", "performCalcNoUpdate", "update", "getBias" }

\* The payloads of the commands of kernel k with the given key, in order.
RECURSIVE PayloadsOf(_, _)
PayloadsOf(log, key) ==
    IF log = << >> THEN << >>
    ELSE IF Name(Head(log)) = key
    THEN << Payload(Head(log)) >> \o PayloadsOf(Tail(log), key)
    ELSE PayloadsOf(Tail(log), key)

RECURSIVE Flatten(_)
Flatten(ss) == IF ss = << >> THEN << >> ELSE Head(ss) \o Flatten(Tail(ss))

RECURSIVE WithoutDelims(_)
WithoutDelims(s) ==
    IF s = << >> THEN << >>
    ELSE IF Head(s) \in Delims THEN WithoutDelims(Tail(s))
    ELSE << Head(s) >> \o WithoutDelims(Tail(s))

\* ------------------------------------------------------------- claims

\* C1 (as stated): over any sequence of execute calls with any step
\* indices, "update" is triggered at most once per distinct step index.
C1_AtMostOncePerStepIndex ==
    \A k \in Kernels : \A s \in Steps : UpdatesFor(k, s) <= 1

\* C1 (amended): within a run of consecutive execute calls with the same
\* step index, "update" is triggered at most once (only the first call of
\* the run can trigger it); hence, when the step indices of the calls never
\* decrease, at most once per distinct step index.
C1_AtMostOncePerRun ==
    \A k \in Kernels :
        LET calls == ExecCalls(k)
        IN  /\ \A i \in 2..Len(calls) :
                  StepOf(calls[i]) = StepOf(calls[i - 1]) => ~Updated(calls[i])
            /\ \A i \in 1..Len(calls) : Count(calls[i], "update") <= 1
            /\ NonDecreasing(calls) => \A s \in Steps : UpdatesFor(k, s) <= 1

\* C1 witness: execute ran twice in a row for one step index, and the first
\* of the two calls triggered "update".
C1_Witness ==
    \E k \in Kernels :
        LET calls == ExecCalls(k)
        IN  /\ Len(calls) = 2
            /\ StepOf(calls[1]) = 1 /\ StepOf(calls[2]) = 1
            /\ Updated(calls[1])

\* C2: on a kernel whose execute calls had strictly increasing step
\* indices, "update" was triggered exactly once for every step index of
\* the sequence, the first one (possibly 0) included.
C2_ExactlyOncePerIncreasingStep ==
    \A k \in Kernels :
        LET calls == ExecCalls(k)
        IN  StrictlyIncreasing(calls) =>
                \A i \in 1..Len(calls) : UpdatesFor(k, StepOf(calls[i])) = 1

\* C3: when the mass-override array is non-empty and its length differs
\* from the particle count, initialize fails with an error and has
\* submitted no script text (no "readInputLines", no "readInputLine").
C3_NoScriptOnMassMismatch ==
    \A k \in Kernels :
        (InitializeReturned(k) /\ MassCountMismatch(system, force)) =>
            /\ error[k] # "none"
            /\ ~Issued(k, ScriptKeys)

\* C4: after a successful initialize the effective mass array has one
\* entry per particle; it is the System's masses when the override array is
\* empty and the override array when that has one entry per particle, never
\* a mixture; every execute pushes exactly this array.
C4_EffectiveMasses ==
    \A k \in Kernels :
        InitializeSucceeded(k) =>
            /\ Len(masses[k]) = system.numParticles
            /\ Len(force.masses) \in {0, system.numParticles}
            /\ Len(force.masses) = 0 =>
                  \A i \in 1..system.numParticles : masses[k][i] = system.masses[i]
            /\ Len(force.masses) = system.numParticles =>
                  \A i \in 1..system.numParticles : masses[k][i] = force.masses[i]
            /\ LET calls == ExecCalls(k)
               IN  \A c \in 1..Len(calls) :
                      PayloadsOf(calls[c], "setMasses") = << masses[k] >>

\* C4 witness: a kernel initialized from a descriptor with one override per
\* particle has executed.
C4_Witness ==
    \E k \in Kernels :
        /\ InitializeSucceeded(k)
        /\ Len(force.masses) = system.numParticles
        /\ system.numParticles = MaxParticles
        /\ Len(ExecCalls(k)) > 0

\* C5 (as stated): the interpreter is finalized only on destruction and
\* only if initialize completed; a kernel never initialized is not
\* finalized; a kernel whose initialize completed stays initialized.
C5_FinalizedOnlyIfInitializeCompleted ==
    \A k \in Kernels :
        /\ plumedFinalized[k] > 0 =>
              (pc[k] = "destroyed" /\ InitializeSucceeded(k))
        /\ (pc[k] = "destroyed" /\ plumedCreated[k] = 0) => plumedFinalized[k] = 0
        /\ InitializeSucceeded(k) => hasInitialized[k]

C5_State ==
    \A k \in Kernels :
        /\ plumedFinalized[k] > 0 <=>
              (pc[k] = "destroyed" /\ InitializeReturned(k))
        /\ (pc[k] = "destroyed" /\ plumedCreated[k] = 0) => plumedFinalized[k] = 0
        /\ InitializeReturned(k) <=> hasInitialized[k]
        /\ Len(ExecCalls(k)) > 0 => InitializeSucceeded(k)

C5_Step ==
    \A k \in Kernels :
        /\ hasInitialized[k] => hasInitialized'[k]
        /\ pc[k] = "destroyed" => pc'[k] = "destroyed"
        /\ pc'[k] = "constructed" => pc[k] = "constructed"
        /\ Len(cmds'[k]) # Len(cmds[k]) =>
              \/ pc[k] = "checked"
              \/ pc[k] = "initialized" /\ pc'[k] = "initialized"

\* C5 (amended): the interpreter is finalized on destruction if and only if
\* initialize was called on the kernel, whether it completed or aborted
\* with an error; a kernel never initialized is not finalized; execute
\* runs only on a kernel whose initialize completed; and no operation
\* clears the initialization flag or revives a destroyed kernel.
C5_Lifecycle == [](C5_State) /\ [][C5_Step]_vars

\* C5 witness: a kernel whose initialize aborted was destroyed and its
\* interpreter finalized.
C5_Witness ==
    \E k \in Kernels :
        /\ pc[k] = "destroyed"
        /\ error[k] = "version"
        /\ plumedFinalized[k] = 1

\* C6: with an API version below 4 initialize fails with the version error
\* and sends nothing after "getApiVersion"; with any version from 4 on the
\* version check raises no error, and the script goes in as one
\* "readInputLines" block iff the version is above 7, line by line
\* ("readInputLine" per non-empty line) otherwise.
C6_VersionGate ==
    \A k \in Kernels :
        InitializeReturned(k) =>
            IF apiVersion < 4
            THEN /\ error[k] = "version"
                 /\ ~Issued(k, LaterSetupKeys)
                 /\ Name(InitCmds(k)[Len(InitCmds(k))]) = "getApiVersion"
            ELSE /\ error[k] # "version"
                 /\ Issued(k, {"init"})
                 /\ IF apiVersion > 7
                    THEN /\ PayloadsOf(InitCmds(k), "readInputLines") = << force.script >>
                         /\ ~Issued(k, {"readInputLine"})
                    ELSE LET lines == PayloadsOf(InitCmds(k), "readInputLine")
                         IN  /\ ~Issued(k, {"readInputLines"})
                             /\ Flatten(lines) = WithoutDelims(force.script)
                             /\ \A i \in 1..Len(lines) :
                                   /\ lines[i] # << >>
                                   /\ \A j \in 1..Len(lines[i]) :
                                         lines[i][j] \notin Delims
                             /\ force.script # << >> => Len(lines) = 2

\* C6 witness: initialize has thrown the unsupported-version error.
C6_Witness ==
    \E k \in Kernels :
        /\ pc[k] = "failed"
        /\ error[k] = "version"
        /\ apiVersion < 4

\* C7: MPI_Init is called at most once in the process, and once some
\* initialize has run the runtime is initialized, whatever the number of
\* kernels and the interleaving of their check-then-init steps.
C7_MpiInitAtMostOnce ==
    /\ mpiInitCalls <= 1
    /\ (\E k \in Kernels : InitializeReturned(k)) => mpiInitialized

\* C8: without a NonbondedForce the charge cache is and stays empty and no
\* execute pushes "setCharges"; with one, the cache holds one charge per
\* particle after initialize and every execute pushes it.
C8_Charges ==
    \A k \in Kernels :
        IF ~NonbondedPresent
        THEN /\ charges[k] = << >>
             /\ ~Issued(k, {"setCharges"})
        ELSE InitializeSucceeded(k) =>
                /\ Len(charges[k]) = system.numParticles
                /\ \E j \in 1..Len(system.forces) :
                      /\ system.forces[j].kind = "Nonbonded"
                      /\ \A i \in 1..system.numParticles :
                            charges[k][i] = system.forces[j].charges[i]
                /\ LET calls == ExecCalls(k)
                   IN  \A c \in 1..Len(calls) :
                          PayloadsOf(calls[c], "setCharges") = << charges[k] >>

\* C8 witness: a kernel of a System without NonbondedForce has executed.
C8_Witness ==
    \E k \in Kernels :
        /\ ~NonbondedPresent
        /\ InitializeSucceeded(k)
        /\ Len(ExecCalls(k)) > 0

\* C9: with initialize called at most once per kernel, every interpreter
\* handle initialize created is finalized exactly once, at destruction,
\* also when initialize aborted; no handle is finalized before that, twice,
\* or without having been created.
C9_HandleFinalizedOnce ==
    \A k \in Kernels :
        /\ plumedCreated[k] <= 1
        /\ plumedFinalized[k] <= plumedCreated[k]
        /\ pc[k] = "destroyed" => plumedFinalized[k] = plumedCreated[k]
        /\ pc[k] # "destroyed" => plumedFinalized[k] = 0

\* C9 witness: a kernel whose initialize aborted on the mass count was
\* destroyed, its one handle finalized once.
C9_Witness ==
    \E k \in Kernels :
        /\ pc[k] = "destroyed"
        /\ error[k] = "masses"
        /\ plumedCreated[k] = 1
        /\ plumedFinalized[k] = 1

\* C10: after every execute the recorded last step index is that call's
\* step index; a call triggers "update" iff its step index differs from the
\* previous call's (from 0 for the first call); every call issues
\* "prepareCalc" then "performCalcNoUpdate" once each, before any "update"
\* and before "getBias".
C10_ExecuteProtocol ==
    \A k \in Kernels :
        LET calls == ExecCalls(k)
        IN  /\ Len(calls) = 0 => lastStepIndex[k] = 0
            /\ Len(calls) > 0 => lastStepIndex[k] = StepOf(calls[Len(calls)])
            /\ \A i \in 1..Len(calls) :
                  LET prev == IF i = 1 THEN 0 ELSE StepOf(calls[i - 1])
                      seg == calls[i]
                      n == Len(seg)
                      u == IF Updated(seg) THEN 1 ELSE 0
                  IN  /\ Updated(seg) <=> StepOf(seg) # prev
                      /\ n >= 3 + u
                      /\ Name(seg[n - 2 - u]) = "prepareCalc"
                      /\ Name(seg[n - 1 - u]) = "performCalcNoUpdate"
                      /\ Updated(seg) => Name(seg[n - 1]) = "update"
                      /\ Name(seg[n]) = "getBias"
                      /\ \A j \in 1..(n - 3 - u) : Name(seg[j]) \notin CalcKeys

\* C10 witness: an execute call for a step index lower than the previous
\* call's has triggered "update" and been recorded.
C10_Witness ==
    \E k \in Kernels :
        LET calls == ExecCalls(k)
        IN  /\ Len(calls) = 2
            /\ StepOf(calls[1]) = 1 /\ StepOf(calls[2]) = 0
            /\ Updated(calls[2])
            /\ lastStepIndex[k] = 0

====
